---- MODULE Spec2Model ----
(***************************************************************************)
(* autosizes (v1.0.3, src/autosizes.js lines 291-636): width resolution,  *)
(* the beforeSizesUpdate / afterSizesUpdate protocol, the rAF batcher and *)
(* the resize debounce, as one state machine.  One action is one task of  *)
(* the single JavaScript thread (a public call, a timer, an idle callback,*)
(* a frame callback); the frame callback's drain loop is stepped so that  *)
(* calls made by afterSizesUpdate listeners can run inside it.            *)
(***************************************************************************)
EXTENDS Integers, Sequences, FiniteSets, TLC

\* ------------------------------------------------------------------ bounds
MaxCalls == 3      \* getSizeElement invocations in one behaviour
MaxInvokes == 3    \* invocations of the debounced function in one behaviour
MaxTime == 297     \* the clock (ms) stops here
MaxLayouts == 1    \* layout changes (offsetWidth changes) in one behaviour

\* ------------------------------------------------------------ JS values
\* A JS value that is an integer, NaN or undefined.
Undefined == [t |-> "undefined", v |-> 0]
NaN == [t |-> "NaN", v |-> 0]
Num(n) == [t |-> "number", v |-> n]
\* A ToBoolean under which every value is truthy.
Truthy_any(x) == TRUE
\* ToBoolean: 0, NaN and undefined are falsy.
Truthy(x) == x.t = "number" /\ x.v # 0
\* a || b
OrElse(a, b) == IF Truthy(a) THEN a ELSE b
\* a < b: a comparison with undefined (ToNumber gives NaN) or NaN is false.
LessThan(a, b) == a.t = "number" /\ b.t = "number" /\ a.v < b.v

\* --------------------------------------------------------------- strings
\* Strings the code takes apart or builds are sequences of characters.
STR_sizes == <<"s", "i", "z", "e", "s">>
STR_auto == <<"a", "u", "t", "o">>
STR_data_sizes == <<"d", "a", "t", "a", "-", "s", "i", "z", "e", "s">>
STR_data_x_w == <<"d", "-", "x", "-", "w">>
STR_vw == <<"1", "0", "0", "v", "w">>
STR_NaN == <<"N", "a", "N">>
STR_undefined == <<"u", "n", "d", "e", "f", "i", "n", "e", "d">>
DigitChar == <<"0", "1", "2", "3", "4", "5", "6", "7", "8", "9">>

\* Number.prototype.toString for an integer.
RECURSIVE NatToStr(_)
NatToStr(n) ==
  IF n < 10 THEN <<DigitChar[n + 1]>>
  ELSE NatToStr(n \div 10) \o <<DigitChar[(n % 10) + 1]>>

IntToStr(n) == IF n < 0 THEN <<"-">> \o NatToStr(-n) ELSE NatToStr(n)

\* A template literal that forgets the unit.
TemplatePx_noUnit(width) ==
  IF width.t = "number" THEN IntToStr(width.v)
  ELSE IF width.t = "NaN" THEN STR_NaN ELSE STR_undefined

\* The template literal `${width}px`.
TemplatePx(width) ==
  (IF width.t = "number" THEN IntToStr(width.v)
   ELSE IF width.t = "NaN" THEN STR_NaN ELSE STR_undefined) \o <<"p", "x">>

\* String.prototype.includes for a one-character needle.
Includes(s, c) == \E i \in 1..Len(s) : s[i] = c

\* attr.split('-') : the last part, parts[parts.length - 1].
LastPart(s) ==
  LET hy == {i \in 1..Len(s) : s[i] = "-"}
      last == IF hy = {} THEN 0 ELSE CHOOSE i \in hy : \A j \in hy : j <= i
  IN SubSeq(s, last + 1, Len(s))

\* hasPrefix(attr)
hasPrefix(attr) == Includes(attr, "-") /\ attr # STR_sizes

\* getBaseAttr(attr)
getBaseAttr(attr) == IF hasPrefix(attr) THEN LastPart(attr) ELSE attr

\* ---------------------------------------------------------- configuration
\* const defaults = {...}
defaults ==
  [targetElementClass |-> "autosizes",
   processedElementClass |-> "autosized",
   sizesAttr |-> STR_sizes,
   minSize |-> 40,
   init |-> TRUE,
   resizeDebounce |-> 99]

\* window.autoSizesConfig absent: initConfig() merges {}.
NoUserConfig == [k \in {} |-> 0]

\* initConfig(): { ...defaults, ...userConfig }
MergeConfig(user) ==
  [k \in DOMAIN defaults |-> IF k \in DOMAIN user THEN user[k] ELSE defaults[k]]

\* ------------------------------------------------------------------- DOM
NULL == "null"
Imgs == {"img1", "img2"}
\* document order of the tracked elements
DocOrder == <<"img1", "img2">>
Nodes == {"img1", "img2", "div", "body", "document"}

\* Rendered widths a layout can give an image.
ImgWidths == {0, 300, 450}

\* What a beforeSizesUpdate listener does during one dispatch: nothing,
\* preventDefault(), or an assignment to detail.width (200, 0 or NaN).
NoListener == [veto |-> FALSE, mutate |-> FALSE, to |-> Undefined]
Behaviours ==
  {NoListener,
   [veto |-> TRUE, mutate |-> FALSE, to |-> Undefined],
   [veto |-> FALSE, mutate |-> TRUE, to |-> Num(200)],
   [veto |-> FALSE, mutate |-> TRUE, to |-> Num(0)],
   [veto |-> FALSE, mutate |-> TRUE, to |-> NaN]}

\* The optional arguments (dataAttr, width) of updateElem: none, as in
\* autoSizes.updateElem(elem).
CallArgs ==
  {[dataAttr |-> FALSE, preset |-> Undefined]}

VARIABLES
  config,       \* module variable `config`
  userConfig,   \* window.autoSizesConfig
  wait,         \* debounce(): const wait, captured when the module is evaluated
  initialized,  \* init.initialized
  elements,     \* autoSizer: `elements` is bound (the live collection) or undefined
  parentNode,   \* node -> parent node or NULL
  offsetWidth,  \* node -> rendered width (undefined for the document node)
  attrs,        \* img -> attribute name -> value
  classList,    \* img -> set of class names
  cache,        \* img -> elem._autosizesWidth
  running,      \* rAF: running
  waiting,      \* rAF: waiting
  queue,        \* rAF: queue of sizeElement closures
  rafPending,   \* requestAnimationFrame callbacks registered and not yet run
  inListener,   \* an afterSizesUpdate listener of the current drain is on the stack
  now,          \* Date.now()
  timestamp,    \* debounce(): timestamp
  timeout,      \* debounce(): timeout ("undefined", "null" or "handle")
  timers,       \* setTimeout(later, d) callbacks pending: their due times
  idleCbs,      \* requestIdleCallback(run) callbacks pending
  hasIdle,      \* window.requestIdleCallback exists
  resizeListeners, \* resize listeners registered on window
  calls,        \* history: every getSizeElement invocation
  effects,      \* history: every write and afterSizesUpdate dispatch, in order
  flushNo,      \* history: frame callbacks run so far
  changed,      \* history: img -> a width changed since the last call on it
  nLayouts,     \* history: layout changes so far
  invLog,       \* history: times of the debounced function's invocations
  execLog,      \* history: executions of the wrapped update pass
  res,          \* the last application of getWidth (resolver specification)
  imported,     \* the entry point (index.js) has been evaluated
  domReadyPending, \* the entry point's DOMContentLoaded listener is registered
  initAgain     \* history: init() was called again after the first call

vars ==
  <<config, userConfig, wait, initialized, elements, parentNode, offsetWidth,
    attrs, classList, cache, running, waiting, queue, rafPending, inListener,
    now, timestamp, timeout, timers, idleCbs, hasIdle, resizeListeners, calls, effects, flushNo,
    changed, nLayouts, invLog, execLog, res, imported, domReadyPending, initAgain>>


\* ------------------------------------------------------- history records
Eff(kind, elem, call, name, val, width) ==
  [kind |-> kind, elem |-> elem, call |-> call, name |-> name, val |-> val,
   width |-> width, flush |-> flushNo]

\* The part of the state one task reads and writes while it runs.
Cur ==
  [config |-> config, attrs |-> attrs, classList |-> classList, cache |-> cache,
   running |-> running, waiting |-> waiting, queue |-> queue,
   rafPending |-> rafPending, calls |-> calls, effects |-> effects,
   changed |-> changed]

Install(M) ==
  /\ config' = M.config
  /\ attrs' = M.attrs
  /\ classList' = M.classList
  /\ cache' = M.cache
  /\ running' = M.running
  /\ waiting' = M.waiting
  /\ queue' = M.queue
  /\ rafPending' = M.rafPending
  /\ calls' = M.calls
  /\ effects' = M.effects
  /\ changed' = M.changed

\* ------------------------------------------------------------ getWidth
\* The while loop of getWidth; steps counts its iterations.
RECURSIVE Traverse(_, _, _, _, _)
Traverse(M, elem, parent, width, steps) ==
  IF LessThan(width, Num(M.config.minSize)) /\ parent # NULL /\ ~Truthy(M.cache[elem])
  THEN Traverse(M, elem, parentNode[parent], offsetWidth[parent], steps + 1)
  ELSE [width |-> width, steps |-> steps]

\* A resolver that also leaves a width equal to minSize behind.
RECURSIVE Traverse_le(_, _, _, _, _)
Traverse_le(M, elem, parent, width, steps) ==
  IF (LessThan(width, Num(M.config.minSize)) \/ width = Num(M.config.minSize))
     /\ parent # NULL /\ ~Truthy(M.cache[elem])
  THEN Traverse_le(M, elem, parentNode[parent], offsetWidth[parent], steps + 1)
  ELSE [width |-> width, steps |-> steps]

getWidth_le(M, elem, parent, width) ==
  Traverse_le(M, elem, parent, OrElse(width, offsetWidth[elem]), 0)

\* A resolver that traverses for sized elements too.
RECURSIVE Traverse_sized(_, _, _, _, _)
Traverse_sized(M, elem, parent, width, steps) ==
  IF LessThan(width, Num(M.config.minSize)) /\ parent # NULL
  THEN Traverse_sized(M, elem, parentNode[parent], offsetWidth[parent], steps + 1)
  ELSE [width |-> width, steps |-> steps]

getWidth_sized(M, elem, parent, width) ==
  Traverse_sized(M, elem, parent, OrElse(width, offsetWidth[elem]), 0)

\* getWidth(elem, parent, width)
getWidth(M, elem, parent, width) ==
  Traverse(M, elem, parent, OrElse(width, offsetWidth[elem]), 0)

\* -------------------------------------------------------- triggerEvent
\* A dispatch whose event is not cancelable: preventDefault() has no effect.
triggerEvent_notCancelable(name, detail, beh) ==
  [name |-> name,
   detail |-> IF beh.mutate THEN [detail EXCEPT !.width = beh.to] ELSE detail,
   defaultPrevented |-> FALSE]

\* triggerEvent(elem, name, detail): the event after a synchronous dispatch in
\* which the listeners behave as beh (bubbles: true, cancelable: true).
triggerEvent(name, detail, beh) ==
  [name |-> name,
   detail |-> IF beh.mutate THEN [detail EXCEPT !.width = beh.to] ELSE detail,
   defaultPrevented |-> beh.veto]

\* --------------------------------------------------------- sizeElement
\* hasSizesAuto(elem)
hasSizesAuto(M, elem) ==
  /\ M.config.sizesAttr \in DOMAIN M.attrs[elem]
  /\ M.attrs[elem][M.config.sizesAttr] = STR_auto

\* elem.setAttribute(name, val)
setAttribute(M, elem, name, val, call) ==
  [M EXCEPT
     !.attrs[elem] = [n \in (DOMAIN @) \cup {name} |-> IF n = name THEN val ELSE @[n]],
     !.effects = Append(@, Eff("attr", elem, call, name, val, Undefined))]

\* setSizesAttr(elem, sizesValue)
setSizesAttr(M, elem, sizesValue, call) ==
  LET M1 == setAttribute(M, elem, M.config.sizesAttr, sizesValue, call)
  IN IF hasPrefix(M.config.sizesAttr)
     THEN setAttribute(M1, elem, getBaseAttr(M.config.sizesAttr), sizesValue, call)
     ELSE M1

\* The function sizeElement wraps: the commit of fn.width on fn.elem.
sizeElementFn(M, fn) ==
  LET M1 == [M EXCEPT
               !.cache[fn.elem] = fn.width,
               !.effects = Append(@, Eff("cache", fn.elem, fn.call, <<>>, <<>>, fn.width))]
      widthPx == TemplatePx(fn.width)
      M2 == IF hasSizesAuto(M1, fn.elem)
            THEN setSizesAttr(M1, fn.elem, widthPx, fn.call)
            ELSE M1
      M3 == IF M2.config.processedElementClass # ""
            THEN [M2 EXCEPT
                    !.classList[fn.elem] = @ \cup {M2.config.processedElementClass},
                    !.effects = Append(@, Eff("class", fn.elem, fn.call,
                                              M2.config.processedElementClass, <<>>, Undefined))]
            ELSE M2
      ev == triggerEvent("afterSizesUpdate", [width |-> fn.width, sizes |-> widthPx],
                         NoListener)
  IN [M3 EXCEPT
        !.effects = Append(@, Eff("after", fn.elem, fn.call, <<>>,
                                  ev.detail.sizes, ev.detail.width))]

\* ------------------------------------------------------------------ rAF
\* A batcher that puts fn at the front of the queue.
rAF_unshift(M, fn) ==
  IF M.running
  THEN sizeElementFn(M, fn)
  ELSE LET M1 == [M EXCEPT !.queue = <<fn>> \o @]
       IN IF ~M1.waiting
          THEN [M1 EXCEPT !.waiting = TRUE, !.rafPending = @ + 1]
          ELSE M1

\* A batcher that forgets fn when a frame callback is already requested.
rAF_dropWhenWaiting(M, fn) ==
  IF M.running
  THEN sizeElementFn(M, fn)
  ELSE IF ~M.waiting
       THEN [M EXCEPT !.queue = Append(@, fn), !.waiting = TRUE, !.rafPending = @ + 1]
       ELSE M

\* A batcher that queues fn even while the batch is executing.
rAF_alwaysQueue(M, fn) ==
  LET M1 == [M EXCEPT !.queue = Append(@, fn)]
  IN IF ~M1.waiting
     THEN [M1 EXCEPT !.waiting = TRUE, !.rafPending = @ + 1]
     ELSE M1

\* rAF(fn): the function the batcher returns.
rAF(M, fn) ==
  IF M.running
  THEN sizeElementFn(M, fn)
  ELSE LET M1 == [M EXCEPT !.queue = Append(@, fn)]
       IN IF ~M1.waiting
          THEN [M1 EXCEPT !.waiting = TRUE, !.rafPending = @ + 1]
          ELSE M1

\* sizeElement(elem, parent, event, width): rAFIt's wrapper; the closure keeps
\* the arguments (call is the history's id of the scheduling call).
sizeElement(M, elem, parent, width, call) ==
  rAF(M, [elem |-> elem, parent |-> parent, width |-> width, call |-> call])

\* ------------------------------------------------------- getSizeElement
Logged(M, rec) == [M EXCEPT !.calls = Append(@, rec), !.changed[rec.elem] = FALSE]

\* A getSizeElement without `if (!parent) return;`.
getSizeElement_noParentCheck(M, elem, dataAttr, preset, beh, origin) ==
  LET parent == parentNode[elem]
      id == Len(M.calls) + 1
      base == [elem |-> elem, origin |-> origin, dataAttr |-> dataAttr,
               preset |-> preset, cacheAt |-> M.cache[elem],
               auto |-> hasSizesAuto(M, elem),
               pending |-> \E i \in DOMAIN M.queue : M.queue[i].elem = elem,
               changed |-> M.changed[elem], flushAt |-> flushNo, beh |-> beh,
               dispatched |-> FALSE, vetoed |-> FALSE, resolved |-> Undefined,
               steps |-> 0, width |-> Undefined, sched |-> "none"]
  IN
       LET r == getWidth(M, elem, parent, preset)
           event == triggerEvent("beforeSizesUpdate",
                                 [width |-> r.width, dataAttr |-> dataAttr], beh)
           width == event.detail.width
           rec == [base EXCEPT !.dispatched = TRUE, !.resolved = r.width,
                               !.steps = r.steps, !.width = width,
                               !.vetoed = event.defaultPrevented]
       IN IF event.defaultPrevented THEN Logged(M, rec)
          ELSE IF Truthy(width) /\ width # M.cache[elem]
          THEN sizeElement(
                 Logged(M, [rec EXCEPT !.sched = IF M.running THEN "inline" ELSE "queued"]),
                 elem, parent, width, id)
          ELSE Logged(M, rec)

\* A getSizeElement that schedules every width that differs from the cached
\* one: if (width !== elem._autosizesWidth).
getSizeElement_noWidthCheck(M, elem, dataAttr, preset, beh, origin) ==
  LET parent == parentNode[elem]
      id == Len(M.calls) + 1
      base == [elem |-> elem, origin |-> origin, dataAttr |-> dataAttr,
               preset |-> preset, cacheAt |-> M.cache[elem],
               auto |-> hasSizesAuto(M, elem),
               pending |-> \E i \in DOMAIN M.queue : M.queue[i].elem = elem,
               changed |-> M.changed[elem], flushAt |-> flushNo, beh |-> beh,
               dispatched |-> FALSE, vetoed |-> FALSE, resolved |-> Undefined,
               steps |-> 0, width |-> Undefined, sched |-> "none"]
  IN IF parent = NULL THEN Logged(M, base)
     ELSE
       LET r == getWidth(M, elem, parent, preset)
           event == triggerEvent("beforeSizesUpdate",
                                 [width |-> r.width, dataAttr |-> dataAttr], beh)
           width == event.detail.width
           rec == [base EXCEPT !.dispatched = TRUE, !.resolved = r.width,
                               !.steps = r.steps, !.width = width,
                               !.vetoed = event.defaultPrevented]
       IN IF event.defaultPrevented THEN Logged(M, rec)
          ELSE IF width # M.cache[elem]
          THEN sizeElement(
                 Logged(M, [rec EXCEPT !.sched = IF M.running THEN "inline" ELSE "queued"]),
                 elem, parent, width, id)
          ELSE Logged(M, rec)

\* getSizeElement(elem, dataAttr, width), with the listeners behaving as beh.
getSizeElement(M, elem, dataAttr, preset, beh, origin) ==
  LET parent == parentNode[elem]
      id == Len(M.calls) + 1
      base == [elem |-> elem, origin |-> origin, dataAttr |-> dataAttr,
               preset |-> preset, cacheAt |-> M.cache[elem],
               auto |-> hasSizesAuto(M, elem),
               pending |-> \E i \in DOMAIN M.queue : M.queue[i].elem = elem,
               changed |-> M.changed[elem], flushAt |-> flushNo, beh |-> beh,
               dispatched |-> FALSE, vetoed |-> FALSE, resolved |-> Undefined,
               steps |-> 0, width |-> Undefined, sched |-> "none"]
  IN IF parent = NULL THEN Logged(M, base)
     ELSE
       LET r == getWidth(M, elem, parent, preset)
           event == triggerEvent("beforeSizesUpdate",
                                 [width |-> r.width, dataAttr |-> dataAttr], beh)
           width == event.detail.width
           rec == [base EXCEPT !.dispatched = TRUE, !.resolved = r.width,
                               !.steps = r.steps, !.width = width,
                               !.vetoed = event.defaultPrevented]
       IN IF event.defaultPrevented THEN Logged(M, rec)
          ELSE IF Truthy(width) /\ width # M.cache[elem]
          THEN sizeElement(
                 Logged(M, [rec EXCEPT !.sched = IF M.running THEN "inline" ELSE "queued"]),
                 elem, parent, width, id)
          ELSE Logged(M, rec)

\* -------------------------------------------------- updateElementsSizes
\* A collection that keeps the tracked elements that are not in the document.
Collection_all == DocOrder

\* The live collection document.getElementsByClassName(targetElementClass):
\* the tracked elements in the document, in document order.
Collection == SelectSeq(DocOrder, LAMBDA e : parentNode[e] # NULL)

RECURSIVE PassFrom(_, _, _, _)
PassFrom(M, i, behs, origin) ==
  IF i > Len(Collection) THEN M
  ELSE PassFrom(getSizeElement(M, Collection[i], FALSE, Undefined,
                               behs[Collection[i]], origin),
                i + 1, behs, origin)

\* A pass that ends at the first element for which nothing is scheduled.
RECURSIVE PassFrom_abort(_, _, _, _)
PassFrom_abort(M, i, behs, origin) ==
  IF i > Len(Collection) THEN M
  ELSE LET M1 == getSizeElement(M, Collection[i], FALSE, Undefined,
                                behs[Collection[i]], origin)
       IN IF M1.calls[Len(M1.calls)].sched = "none" THEN M1
          ELSE PassFrom_abort(M1, i + 1, behs, origin)

updateElementsSizes_abort(M, bound, behs, origin) ==
  IF ~bound \/ Len(Collection) = 0 THEN M ELSE PassFrom_abort(M, 1, behs, origin)

\* updateElementsSizes()
updateElementsSizes(M, bound, behs, origin) ==
  IF ~bound \/ Len(Collection) = 0 THEN M ELSE PassFrom(M, 1, behs, origin)


\* ------------------------------------------------------------------ Init
\* The document: img1 in a narrow div in body; img2 directly in body, or
\* created by a script and not inserted.
InitDom ==
  /\ \E p2 \in {"body", NULL} :
       parentNode = [n \in Nodes |->
                     CASE n = "img1" -> "div"
                       [] n = "img2" -> p2
                       [] n = "div" -> "body"
                       [] n = "body" -> "document"
                       [] OTHER -> NULL]
  /\ offsetWidth = [n \in Nodes |->
                      CASE n = "img1" -> Num(450)
                        [] n = "img2" -> Num(10)
                        [] n = "div" -> Num(5)
                        [] n = "body" -> Num(300)
                        [] OTHER -> Undefined]

\* The batcher and the debounce as the module's evaluation leaves them
\* (debounce() has captured wait from config = { ...defaults }), and empty
\* histories.
InitCommon ==
  /\ wait = defaults.resizeDebounce
  /\ classList = [e \in Imgs |-> {defaults.targetElementClass}]
  /\ running = FALSE
  /\ waiting = FALSE
  /\ queue = <<>>
  /\ rafPending = 0
  /\ inListener = FALSE
  /\ now = 0
  /\ timestamp = 0
  /\ timeout = "undefined"
  /\ timers = <<>>
  /\ idleCbs = 0
  /\ calls = <<>>
  /\ effects = <<>>
  /\ flushNo = 0
  /\ changed = [e \in Imgs |-> FALSE]
  /\ nLayouts = 0
  /\ invLog = <<>>
  /\ execLog = <<>>
  /\ res = [applied |-> FALSE]
  /\ imported = FALSE
  /\ domReadyPending = FALSE
  /\ initAgain = FALSE

\* The module has been evaluated (config = { ...defaults }); init() has not
\* run and no element has been sized.
InitModule ==
  /\ InitCommon
  /\ config = defaults
  /\ initialized = FALSE
  /\ elements = FALSE
  /\ resizeListeners = 0
  /\ cache = [e \in Imgs |-> Undefined]

\* A page: window.autoSizesConfig and the markup of the tracked images, which
\* carry "auto" in the configured attribute.  The default configuration with
\* sizes="auto"; a prefixed attribute with data-sizes="auto"; a two-hyphen
\* attribute and no processed class.
Pages ==
  {[user |-> NoUserConfig, markup |-> [n \in {STR_sizes} |-> STR_auto]],
   [user |-> [sizesAttr |-> STR_data_sizes],
    markup |-> [n \in {STR_data_sizes} |-> STR_auto]],
   [user |-> [sizesAttr |-> STR_data_x_w, processedElementClass |-> ""],
    markup |-> [n \in {STR_data_x_w} |-> STR_auto]]}

Init ==
  /\ InitModule
  /\ InitDom
  /\ hasIdle = FALSE
  /\ \E pg \in Pages :
       /\ userConfig = pg.user
       /\ attrs = [e \in Imgs |-> pg.markup]

ghostVars == <<flushNo, nLayouts, invLog, execLog, res>>
domVars == <<parentNode, offsetWidth>>
timeVars == <<now, timestamp, timeout, timers, idleCbs>>
envVars == <<userConfig, hasIdle, wait>>
entryVars == <<imported, domReadyPending, initAgain>>

\* --------------------------------------------------------------- actions
\* autoSizer.updateElem(elem, dataAttr, width), called as a task of its own.
UpdateElem(elem, args, beh) ==
  /\ ~running
  /\ Len(calls) < MaxCalls
  /\ Install(getSizeElement(Cur, elem, args.dataAttr, args.preset, beh, "updateElem"))
  /\ UNCHANGED <<initialized, elements, resizeListeners, inListener>>
  /\ UNCHANGED <<ghostVars, domVars, timeVars, envVars, entryVars>>

\* updateElem called by an afterSizesUpdate listener while the batch drains.
ListenerUpdateElem(elem, args, beh) ==
  /\ running
  /\ inListener
  /\ Len(calls) < MaxCalls
  /\ Install(getSizeElement(Cur, elem, args.dataAttr, args.preset, beh, "listener"))
  /\ UNCHANGED <<initialized, elements, resizeListeners, inListener>>
  /\ UNCHANGED <<ghostVars, domVars, timeVars, envVars, entryVars>>

\* An init() without the initialized guard.
initFn_again(behs) ==
  /\ Len(calls) + Len(Collection) <= MaxCalls
  /\ initialized' = TRUE
  /\ elements' = TRUE
  /\ resizeListeners' = 1
  /\ Install(updateElementsSizes([Cur EXCEPT !.config = MergeConfig(userConfig)],
                                  TRUE, behs, "init"))
  /\ initAgain' = (initAgain \/ initialized)

\* init(): if (init.initialized) return; otherwise initConfig(), then
\* autoSizer.init() with its initial pass.
initFn(behs) ==
  IF initialized
  THEN /\ initAgain' = TRUE
       /\ UNCHANGED <<initialized, elements, resizeListeners, config, attrs, classList,
                      cache, running, waiting, queue, rafPending, calls, effects,
                      changed>>
  ELSE /\ Len(calls) + Len(Collection) <= MaxCalls
       /\ initialized' = TRUE
       /\ elements' = TRUE
       /\ resizeListeners' = 1
       /\ Install(updateElementsSizes([Cur EXCEPT !.config = MergeConfig(userConfig)],
                                       TRUE, behs, "init"))
       /\ UNCHANGED initAgain

\* autoSizes.init(), called by the page.
InitLib(behs) ==
  /\ ~running
  /\ initFn(behs)
  /\ UNCHANGED <<inListener, ghostVars, domVars, timeVars, envVars, imported,
                 domReadyPending>>

\* autoSizes.cfg: the object `config` named when the module was evaluated,
\* { ...defaults }; initConfig() binds `config` to a new object.
cfg == defaults

\* The entry point is evaluated: window.autoSizes = autoSizes, then, if
\* (autoSizes.cfg.init !== false), init() at once or on DOMContentLoaded.
Import(behs) ==
  /\ ~running
  /\ ~imported
  /\ imported' = TRUE
  /\ IF cfg.init # FALSE
     THEN \/ /\ domReadyPending' = TRUE
             /\ UNCHANGED <<initialized, elements, resizeListeners, config, attrs,
                            classList, cache, running, waiting, queue, rafPending,
                            calls, effects, changed, initAgain>>
          \/ /\ initFn(behs)
             /\ UNCHANGED domReadyPending
     ELSE UNCHANGED <<initialized, elements, resizeListeners, config, attrs,
                      classList, cache, running, waiting, queue, rafPending,
                      calls, effects, changed, initAgain, domReadyPending>>
  /\ UNCHANGED <<inListener, ghostVars, domVars, timeVars, envVars>>

\* DOMContentLoaded: the entry point's listener calls autoSizes.init().
DomReady(behs) ==
  /\ ~running
  /\ domReadyPending
  /\ domReadyPending' = FALSE
  /\ initFn(behs)
  /\ UNCHANGED <<inListener, ghostVars, domVars, timeVars, envVars, imported>>

\* The page assigns window.autoSizesConfig.
SetUserConfig(u) ==
  /\ ~running
  /\ userConfig # u
  /\ userConfig' = u
  /\ UNCHANGED <<config, attrs, classList, cache, running, waiting, queue, rafPending,
                 calls, effects, changed, initialized, elements, resizeListeners,
                 inListener, hasIdle, wait>>
  /\ UNCHANGED <<ghostVars, domVars, timeVars, entryVars>>

\* A debounced function that arms a timer at every invocation.
DebouncedUpdate_alwaysArm(origin) ==
  /\ ~running
  /\ Len(invLog) < MaxInvokes
  /\ origin = "resize" => resizeListeners > 0
  /\ timestamp' = now
  /\ timeout' = "handle"
  /\ timers' = Append(timers, now + wait)
  /\ invLog' = Append(invLog, [t |-> now, origin |-> origin, init |-> initialized])
  /\ UNCHANGED <<config, attrs, classList, cache, running, waiting, queue, rafPending,
                 calls, effects, changed, initialized, elements, resizeListeners,
                 inListener, now, idleCbs, flushNo, nLayouts, execLog, res>>
  /\ UNCHANGED <<domVars, envVars, entryVars>>

\* The debounced function: a resize notification or a call of updateAll.
DebouncedUpdate(origin) ==
  /\ ~running
  /\ Len(invLog) < MaxInvokes
  /\ origin = "resize" => resizeListeners > 0
  /\ timestamp' = now
  /\ IF timeout # "handle"
     THEN /\ timeout' = "handle"
          /\ timers' = Append(timers, now + wait)
     ELSE UNCHANGED <<timeout, timers>>
  /\ invLog' = Append(invLog, [t |-> now, origin |-> origin, init |-> initialized])
  /\ UNCHANGED <<config, attrs, classList, cache, running, waiting, queue, rafPending,
                 calls, effects, changed, initialized, elements, resizeListeners,
                 inListener, now, idleCbs, flushNo, nLayouts, execLog, res>>
  /\ UNCHANGED <<domVars, envVars, entryVars>>

\* debounce(): run
DebounceRun(behs) ==
  /\ Len(calls) + (IF elements THEN Len(Collection) ELSE 0) <= MaxCalls
  /\ timeout' = "null"
  /\ Install(updateElementsSizes(Cur, elements, behs, "debounced"))
  /\ execLog' = Append(execLog, [t |-> now, last |-> timestamp, n |-> Len(invLog)])

NoPass ==
  UNCHANGED <<config, attrs, classList, cache, running, waiting, queue, rafPending,
              calls, effects, changed, execLog>>

\* debounce(): later: if (last < wait), the timer is armed again.
laterRearms(last, w) == last < w

\* debounce(): later, the callback of the timer timers[i]
TimerFire(i, behs) ==
  /\ ~running
  /\ i \in DOMAIN timers
  /\ timers[i] <= now
  /\ LET rest == SubSeq(timers, 1, i - 1) \o SubSeq(timers, i + 1, Len(timers))
         last == now - timestamp
     IN IF laterRearms(last, wait)
        THEN /\ timeout' = "handle"
             /\ timers' = Append(rest, now + (wait - last))
             /\ NoPass
             /\ UNCHANGED idleCbs
        ELSE /\ timers' = rest
             /\ IF hasIdle
                THEN /\ idleCbs' = idleCbs + 1
                     /\ NoPass
                     /\ UNCHANGED timeout
                ELSE /\ DebounceRun(behs)
                     /\ UNCHANGED idleCbs
  /\ UNCHANGED <<initialized, elements, resizeListeners, inListener, now, timestamp,
                 flushNo, nLayouts, invLog, res>>
  /\ UNCHANGED <<domVars, envVars, entryVars>>

\* The idle callback: run
IdleFire(behs) ==
  /\ ~running
  /\ idleCbs > 0
  /\ idleCbs' = idleCbs - 1
  /\ DebounceRun(behs)
  /\ UNCHANGED <<initialized, elements, resizeListeners, inListener, now, timestamp,
                 timers, flushNo, nLayouts, invLog, res>>
  /\ UNCHANGED <<domVars, envVars, entryVars>>

\* Time passes.
TickSteps == {33, 66, 99}
Tick(d) ==
  /\ ~running
  /\ now + d <= MaxTime
  /\ now' = now + d
  /\ UNCHANGED <<config, attrs, classList, cache, running, waiting, queue, rafPending,
                 calls, effects, changed, initialized, elements, resizeListeners,
                 inListener, timestamp, timeout, timers, idleCbs>>
  /\ UNCHANGED <<ghostVars, domVars, envVars, entryVars>>

\* A frame callback that leaves `waiting` set.
RunStart_keepWaiting ==
  /\ ~running
  /\ rafPending > 0
  /\ rafPending' = rafPending - 1
  /\ running' = TRUE
  /\ waiting' = waiting
  /\ inListener' = FALSE
  /\ flushNo' = flushNo + 1
  /\ UNCHANGED <<config, attrs, classList, cache, queue, calls, effects, changed,
                 initialized, elements, resizeListeners, nLayouts, invLog, execLog, res>>
  /\ UNCHANGED <<domVars, timeVars, envVars, entryVars>>

\* The frame callback, rAF's run: running = true; waiting = false.
RunStart ==
  /\ ~running
  /\ rafPending > 0
  /\ rafPending' = rafPending - 1
  /\ running' = TRUE
  /\ waiting' = FALSE
  /\ inListener' = FALSE
  /\ flushNo' = flushNo + 1
  /\ UNCHANGED <<config, attrs, classList, cache, queue, calls, effects, changed,
                 initialized, elements, resizeListeners, nLayouts, invLog, execLog, res>>
  /\ UNCHANGED <<domVars, timeVars, envVars, entryVars>>

\* A loop that takes the last function of the queue: fn = queue.pop(); fn().
RunStep_pop ==
  /\ running
  /\ queue # <<>>
  /\ Install(sizeElementFn([Cur EXCEPT !.queue = SubSeq(queue, 1, Len(queue) - 1)],
                           queue[Len(queue)]))
  /\ inListener' = TRUE
  /\ UNCHANGED <<initialized, elements, resizeListeners>>
  /\ UNCHANGED <<ghostVars, domVars, timeVars, envVars, entryVars>>

\* One iteration of run's loop: fn = queue.shift(); fn().
RunStep ==
  /\ running
  /\ queue # <<>>
  /\ Install(sizeElementFn([Cur EXCEPT !.queue = Tail(queue)], Head(queue)))
  /\ inListener' = TRUE
  /\ UNCHANGED <<initialized, elements, resizeListeners>>
  /\ UNCHANGED <<ghostVars, domVars, timeVars, envVars, entryVars>>

\* The loop ends: running = false.
RunEnd ==
  /\ running
  /\ queue = <<>>
  /\ running' = FALSE
  /\ inListener' = FALSE
  /\ UNCHANGED <<config, attrs, classList, cache, waiting, queue, rafPending, calls,
                 effects, changed, initialized, elements, resizeListeners>>
  /\ UNCHANGED <<ghostVars, domVars, timeVars, envVars, entryVars>>

\* A layout change gives an image another rendered width.
Layout(elem, w) ==
  /\ ~running
  /\ nLayouts < MaxLayouts
  /\ offsetWidth[elem] # Num(w)
  /\ offsetWidth' = [offsetWidth EXCEPT ![elem] = Num(w)]
  /\ changed' = [e \in Imgs |-> TRUE]
  /\ nLayouts' = nLayouts + 1
  /\ UNCHANGED <<config, attrs, classList, cache, running, waiting, queue, rafPending,
                 calls, effects, initialized, elements, resizeListeners, inListener,
                 parentNode, flushNo, invLog, execLog, res>>
  /\ UNCHANGED <<timeVars, envVars, entryVars>>

\* Where the page puts an image when it inserts it.
InsertPlace == [e \in Imgs |-> IF e = "img1" THEN "div" ELSE "body"]

\* The page inserts a tracked image into the document: the live collection
\* gains it.
Insert(elem) ==
  /\ ~running
  /\ parentNode[elem] = NULL
  /\ parentNode' = [parentNode EXCEPT ![elem] = InsertPlace[elem]]
  /\ UNCHANGED <<config, attrs, classList, cache, running, waiting, queue, rafPending,
                 calls, effects, changed, initialized, elements, resizeListeners,
                 inListener, offsetWidth>>
  /\ UNCHANGED <<ghostVars, timeVars, envVars, entryVars>>

\* The page removes a tracked image from the document: the live collection
\* loses it.
Remove(elem) ==
  /\ ~running
  /\ parentNode[elem] # NULL
  /\ parentNode' = [parentNode EXCEPT ![elem] = NULL]
  /\ UNCHANGED <<config, attrs, classList, cache, running, waiting, queue, rafPending,
                 calls, effects, changed, initialized, elements, resizeListeners,
                 inListener, offsetWidth>>
  /\ UNCHANGED <<ghostVars, timeVars, envVars, entryVars>>

\* ---------------------------------------------------------- specifications
\* The update path: init(), then calls of updateElem, and the frame callback,
\* with every listener behaviour.  The page calls init() once and updateElem
\* after it (the entry point runs init() when it is imported); repeated
\* init() calls are those of SpecEntry.
Next ==
  \/ \E e \in Imgs, a \in CallArgs, b \in Behaviours : initialized /\ UpdateElem(e, a, b)
  \/ \E e \in Imgs, a \in CallArgs, b \in Behaviours : ListenerUpdateElem(e, a, b)
  \/ \E behs \in [Imgs -> Behaviours] : ~initialized /\ InitLib(behs)
  \/ RunStart
  \/ RunStep
  \/ RunEnd

Spec == Init /\ [][Next]_vars

\* The resize path: init(), resize notifications through the debounce, the
\* frame callback and layout changes of img1; no listener interferes, img1
\* alone is in the document, and the clock moves in steps of the debounce
\* delay.
NoListeners == [e \in Imgs |-> NoListener]

InitResize ==
  /\ InitModule
  /\ parentNode = [n \in Nodes |->
                     CASE n = "img1" -> "div"
                       [] n = "div" -> "body"
                       [] n = "body" -> "document"
                       [] OTHER -> NULL]
  /\ offsetWidth = [n \in Nodes |->
                      CASE n = "img1" -> Num(450)
                        [] n = "img2" -> Num(10)
                        [] n = "div" -> Num(5)
                        [] n = "body" -> Num(300)
                        [] OTHER -> Undefined]
  /\ hasIdle \in BOOLEAN
  /\ \E pg \in Pages :
       /\ userConfig = pg.user
       /\ attrs = [e \in Imgs |-> pg.markup]

NextResize ==
  \/ ~initialized /\ InitLib(NoListeners)
  \/ DebouncedUpdate("resize")
  \/ \E i \in 1..MaxInvokes : TimerFire(i, NoListeners)
  \/ IdleFire(NoListeners)
  \/ Tick(wait)
  \/ RunStart
  \/ RunStep
  \/ RunEnd
  \/ \E w \in ImgWidths : Layout("img1", w)

SpecResize == InitResize /\ [][NextResize]_vars

\* The debounce alone: no tracked image is in the document, so the update
\* pass touches no element; every origin, and a clock that moves in thirds
\* of the default delay.
InitDebounce ==
  /\ InitModule
  /\ parentNode = [n \in Nodes |->
                     CASE n = "div" -> "body"
                       [] n = "body" -> "document"
                       [] OTHER -> NULL]
  /\ offsetWidth = [n \in Nodes |->
                      CASE n = "img1" -> Num(450)
                        [] n = "img2" -> Num(10)
                        [] n = "div" -> Num(5)
                        [] n = "body" -> Num(300)
                        [] OTHER -> Undefined]
  /\ hasIdle \in BOOLEAN
  /\ userConfig \in {NoUserConfig, [resizeDebounce |-> 132, init |-> FALSE]}
  /\ attrs = [e \in Imgs |-> [n \in {STR_sizes} |-> STR_auto]]

NextDebounce ==
  \/ ~initialized /\ InitLib(NoListeners)
  \/ \E o \in {"resize", "updateAll"} : DebouncedUpdate(o)
  \/ \E i \in 1..MaxInvokes : TimerFire(i, NoListeners)
  \/ IdleFire(NoListeners)
  \/ \E d \in TickSteps : Tick(d)

SpecDebounce == InitDebounce /\ [][NextDebounce]_vars


\* The resolver alone: getWidth applied to img1 under every chain of up to
\* three ancestors (the last may be the document), sized or not.
ChainWidths == {0, 5, 10, 40, 300}
ResolverPresets == {Undefined, Num(0), Num(10), Num(120)}

\* init() has run (config is the merged configuration); img1 is unsized or
\* was sized to 450 by an earlier commit.
InitWidth ==
  /\ InitCommon
  /\ hasIdle = FALSE
  /\ userConfig \in {NoUserConfig, [minSize |-> 10]}
  /\ config = MergeConfig(userConfig)
  /\ initialized = TRUE
  /\ elements = TRUE
  /\ resizeListeners = 1
  /\ \E c \in {Undefined, Num(450)} : cache = [e \in Imgs |-> IF e = "img1" THEN c ELSE Undefined]
  /\ attrs = [e \in Imgs |-> [n \in {STR_sizes} |-> STR_auto]]
  /\ \E p1 \in {NULL, "div"}, p2 \in {NULL, "body"}, p3 \in {NULL, "document"} :
       parentNode = [n \in Nodes |->
                       CASE n = "img1" -> p1
                         [] n = "div" -> p2
                         [] n = "body" -> p3
                         [] OTHER -> NULL]
  /\ \E w1 \in ChainWidths, w2 \in ChainWidths, w3 \in ChainWidths :
       offsetWidth = [n \in Nodes |->
                        CASE n = "img1" -> Num(w1)
                          [] n = "div" -> Num(w2)
                          [] n = "body" -> Num(w3)
                          [] n = "img2" -> Num(10)
                          [] OTHER -> Undefined]

\* getWidth(img1, img1.parentNode, preset), its result kept in res.
Resolve(elem, preset) ==
  /\ res' = [applied |-> TRUE, elem |-> elem, parent |-> parentNode[elem],
             preset |-> preset,
             out |-> getWidth(Cur, elem, parentNode[elem], preset)]
  /\ UNCHANGED <<config, attrs, classList, cache, running, waiting, queue, rafPending,
                 calls, effects, changed, initialized, elements, resizeListeners,
                 inListener, flushNo, nLayouts, invLog, execLog>>
  /\ UNCHANGED <<domVars, timeVars, envVars, entryVars>>

NextWidth == \E p \in ResolverPresets : Resolve("img1", p)

SpecWidth == InitWidth /\ [][NextWidth]_vars


\* The entry point: the import, DOMContentLoaded, init() called by the page
\* any number of times, window.autoSizesConfig assigned before and after,
\* resize notifications and the frame callback; img1 alone is in the
\* document and carries "auto" in the attribute the page configures.
EntryConfigs ==
  {NoUserConfig, [init |-> FALSE], [init |-> FALSE, sizesAttr |-> STR_data_sizes]}

InitEntry ==
  /\ InitModule
  /\ parentNode = [n \in Nodes |->
                     CASE n = "img1" -> "div"
                       [] n = "div" -> "body"
                       [] n = "body" -> "document"
                       [] OTHER -> NULL]
  /\ offsetWidth = [n \in Nodes |->
                      CASE n = "img1" -> Num(450)
                        [] n = "img2" -> Num(10)
                        [] n = "div" -> Num(5)
                        [] n = "body" -> Num(300)
                        [] OTHER -> Undefined]
  /\ hasIdle = FALSE
  /\ userConfig \in EntryConfigs
  /\ attrs = [e \in Imgs |-> [n \in {MergeConfig(userConfig).sizesAttr} |-> STR_auto]]

NextEntry ==
  \/ Import(NoListeners)
  \/ DomReady(NoListeners)
  \/ InitLib(NoListeners)
  \/ \E u \in EntryConfigs : SetUserConfig(u)
  \/ DebouncedUpdate("resize")
  \/ \E i \in 1..MaxInvokes : TimerFire(i, NoListeners)
  \/ Tick(wait)
  \/ RunStart
  \/ RunStep
  \/ RunEnd

SpecEntry == InitEntry /\ [][NextEntry]_vars


\* updateAll and resize together: img1 alone is in the document, on the
\* default markup, with and without a configured resizeDebounce and with and
\* without requestIdleCallback; no listener interferes, and the clock moves
\* in steps of the debounce delay.
InitUpdateAll ==
  /\ InitModule
  /\ parentNode = [n \in Nodes |->
                     CASE n = "img1" -> "div"
                       [] n = "div" -> "body"
                       [] n = "body" -> "document"
                       [] OTHER -> NULL]
  /\ offsetWidth = [n \in Nodes |->
                      CASE n = "img1" -> Num(450)
                        [] n = "img2" -> Num(10)
                        [] n = "div" -> Num(5)
                        [] n = "body" -> Num(300)
                        [] OTHER -> Undefined]
  /\ hasIdle \in BOOLEAN
  /\ userConfig \in {NoUserConfig, [resizeDebounce |-> 132]}
  /\ attrs = [e \in Imgs |-> [n \in {STR_sizes} |-> STR_auto]]

NextUpdateAll ==
  \/ ~initialized /\ InitLib(NoListeners)
  \/ \E o \in {"resize", "updateAll"} : DebouncedUpdate(o)
  \/ \E i \in 1..MaxInvokes : TimerFire(i, NoListeners)
  \/ IdleFire(NoListeners)
  \/ Tick(wait)
  \/ RunStart
  \/ RunStep
  \/ RunEnd

SpecUpdateAll == InitUpdateAll /\ [][NextUpdateAll]_vars


\* Pages whose tracked images do not carry "auto": the images have the
\* target class and sizes="100vw", or no sizes attribute at all; the update
\* path is that of Spec.
InitMarker ==
  /\ InitModule
  /\ InitDom
  /\ hasIdle = FALSE
  /\ userConfig = NoUserConfig
  /\ \E markup \in {[n \in {STR_sizes} |-> STR_vw], [n \in {} |-> <<>>]} :
       attrs = [e \in Imgs |-> markup]

SpecMarker == InitMarker /\ [][Next]_vars


\* The batcher under a fair frame callback (a requested frame callback runs,
\* and its loop runs to its end), on the default page; listeners of
\* beforeSizesUpdate do nothing or set the width to 200, so that an element
\* can be committed more than once.
BatcherBehaviours == {NoListener, [veto |-> FALSE, mutate |-> TRUE, to |-> Num(200)]}

InitBatcher ==
  /\ InitModule
  /\ InitDom
  /\ hasIdle = FALSE
  /\ userConfig = NoUserConfig
  /\ attrs = [e \in Imgs |-> [n \in {STR_sizes} |-> STR_auto]]

NextBatcher ==
  \/ \E e \in Imgs, a \in CallArgs, b \in BatcherBehaviours :
       initialized /\ UpdateElem(e, a, b)
  \/ \E e \in Imgs, a \in CallArgs, b \in BatcherBehaviours : ListenerUpdateElem(e, a, b)
  \/ \E behs \in [Imgs -> BatcherBehaviours] : ~initialized /\ InitLib(behs)
  \/ RunStart
  \/ RunStep
  \/ RunEnd

SpecBatcher ==
  /\ InitBatcher
  /\ [][NextBatcher]_vars
  /\ WF_vars(RunStart) /\ WF_vars(RunStep) /\ WF_vars(RunEnd)


\* The passes over the live collection: init() (called any number of
\* times), then passes driven by updateAll calls (the function the resize
\* listener is, whose passes are those of SpecResize), while the page
\* inserts and removes img2 and a layout change gives img1 another width;
\* listeners of
\* beforeSizesUpdate do nothing, veto, or set the width to 0.  Default page,
\* no requestIdleCallback; the page acts (an invocation, an insertion, a
\* removal, a layout change, a repeated init()) while no debounce timer is
\* pending and no frame callback is outstanding (a frame is shorter than the
\* delay), and the clock moves by the delay while a timer is pending.
LiveBehaviours ==
  {NoListener,
   [veto |-> TRUE, mutate |-> FALSE, to |-> Undefined],
   [veto |-> FALSE, mutate |-> TRUE, to |-> Num(0)]}

InitLive ==
  /\ InitModule
  /\ InitDom
  /\ hasIdle = FALSE
  /\ userConfig = NoUserConfig
  /\ attrs = [e \in Imgs |-> [n \in {STR_sizes} |-> STR_auto]]

\* The page acts between the library's tasks: no debounce timer is pending
\* and the requested frame callback has run.
PageTurn == timers = <<>> /\ rafPending = 0

NextLive ==
  \/ \E behs \in [Imgs -> LiveBehaviours] : ~initialized /\ InitLib(behs)
  \/ initialized /\ PageTurn /\ InitLib(NoListeners)
  \/ PageTurn /\ DebouncedUpdate("updateAll")
  \/ \E i \in 1..MaxInvokes, behs \in [Imgs -> LiveBehaviours] : TimerFire(i, behs)
  \/ rafPending = 0 /\ timers # <<>> /\ Tick(wait)
  \/ RunStart
  \/ RunStep
  \/ RunEnd
  \/ PageTurn /\ Insert("img2")
  \/ PageTurn /\ Remove("img2")
  \/ \E w \in ImgWidths : PageTurn /\ Layout("img1", w)

SpecLive == InitLive /\ [][NextLive]_vars


\* ================================================================ claims
\* Vocabulary of the claims, read off the histories calls and effects.
Idle == ~running /\ queue = <<>>
EffOf(kind, c) == {i \in DOMAIN effects : effects[i].kind = kind /\ effects[i].call = c}
EffOn(kind, e) == {i \in DOMAIN effects : effects[i].kind = kind /\ effects[i].elem = e}
Committed(c) == EffOf("cache", c) # {}
Queued(c) == \E i \in DOMAIN queue : queue[i].call = c
CallsOn(e) == {c \in DOMAIN calls : calls[c].elem = e}
\* The string "<n>px"
Px(n) == IntToStr(n) \o <<"p", "x">>

\* C1 (veto): a call in which a beforeSizesUpdate listener called
\* preventDefault() schedules nothing and causes nothing, at the call or at
\* any later flush: no commit of it is queued, and no attribute write, cache
\* update, class addition or afterSizesUpdate event belongs to it.
C1_Veto ==
  \A c \in DOMAIN calls :
    (calls[c].dispatched /\ calls[c].beh.veto) =>
      /\ calls[c].sched = "none"
      /\ ~Queued(c)
      /\ \A i \in DOMAIN effects : effects[i].call # c

\* A vetoed call whose resolved width differed from the cache, a flush later.
C1_Witness ==
  \E c \in DOMAIN calls :
    /\ calls[c].dispatched /\ calls[c].beh.veto
    /\ Truthy(calls[c].resolved) /\ calls[c].resolved # calls[c].cacheAt
    /\ flushNo > calls[c].flushAt
    /\ Idle

\* C2 (mutation): when a listener has set detail.width = X (X non-zero and
\* different from the cached width) without a veto, on an element that takes
\* part (its attribute read "auto" or it was sized before), has no commit
\* pending and sees no later call, the flush that follows writes the size
\* attribute as "Xpx", sets the cache to X and emits afterSizesUpdate with
\* width X and sizes "Xpx".
C2_Mutation ==
  \A c \in DOMAIN calls :
    LET r == calls[c]
        X == r.beh.to
    IN (/\ r.dispatched /\ r.beh.mutate /\ ~r.beh.veto
        /\ Truthy(X) /\ X # r.cacheAt
        /\ r.auto \/ Truthy(r.cacheAt)
        /\ ~r.pending /\ r.sched = "queued"
        /\ CallsOn(r.elem) \ (1..c) = {}
        /\ flushNo > r.flushAt /\ Idle) =>
         /\ attrs[r.elem][config.sizesAttr] = Px(X.v)
         /\ cache[r.elem] = X
         /\ \E i \in EffOf("after", c) :
              effects[i].width = X /\ effects[i].val = Px(X.v)
         /\ \A i \in EffOf("attr", c) \cup EffOf("after", c) : effects[i].val = Px(X.v)

\* C3 (first commit): an attached, unsized element whose size attribute reads
\* "auto" and whose own width W is at least minSize, touched by one update
\* pass without listener interference: after the following flush the size
\* attribute is "Wpx", the processed class is on the element, and exactly one
\* afterSizesUpdate was emitted for it, with width W and sizes "Wpx".
C3_FirstCommit ==
  \A c \in DOMAIN calls :
    LET r == calls[c]
        e == r.elem
        W == offsetWidth[e]
    IN (/\ r.origin = "init" /\ r.dispatched /\ r.beh = NoListener
        /\ r.cacheAt = Undefined /\ r.auto /\ ~r.pending
        /\ W.v >= config.minSize
        /\ config.processedElementClass # ""
        /\ CallsOn(e) = {c}
        /\ flushNo > r.flushAt /\ Idle) =>
         /\ attrs[e][config.sizesAttr] = Px(W.v)
         /\ config.processedElementClass \in classList[e]
         /\ Cardinality(EffOn("after", e)) = 1
         /\ \A i \in EffOn("after", e) :
              effects[i].width = W /\ effects[i].val = Px(W.v)

\* img1 (450 wide, minSize 40) after init()'s pass and the flush.
C3_Witness ==
  \E c \in DOMAIN calls :
    /\ calls[c].origin = "init" /\ calls[c].dispatched /\ calls[c].beh = NoListener
    /\ calls[c].elem = "img1" /\ offsetWidth["img1"] = Num(450)
    /\ calls[c].cacheAt = Undefined /\ calls[c].auto
    /\ config.processedElementClass # ""
    /\ CallsOn("img1") = {c}
    /\ flushNo > calls[c].flushAt /\ Idle
    /\ Committed(c)

\* C4 (re-commit on resize): an element already sized (its attribute was
\* written as "Wpx") whose rendered width has changed to another non-zero
\* width W', touched by the debounced pass of a resize notification: after
\* the following flush its size attribute is "W'px".
C4_Recommit ==
  \A c \in DOMAIN calls :
    LET r == calls[c]
        e == r.elem
    IN (/\ r.origin = "debounced" /\ r.dispatched
        /\ Truthy(r.cacheAt)
        /\ \E i \in EffOn("attr", e) :
             effects[i].flush <= r.flushAt /\ effects[i].val = Px(r.cacheAt.v)
        /\ r.changed
        /\ r.resolved = offsetWidth[e] /\ Truthy(r.resolved) /\ r.resolved # r.cacheAt
        /\ ~changed[e]
        /\ CallsOn(e) \ (1..c) = {}
        /\ flushNo > r.flushAt /\ Idle) =>
         attrs[e][config.sizesAttr] = Px(r.resolved.v)

\* C5 (idempotence): two successive calls on one element, the first on an
\* unsized element reading "auto" with nothing pending, no width change and
\* no listener interference between them, with or without a flush between
\* them: once every batch has flushed, exactly one attribute write and
\* exactly one afterSizesUpdate came of the two calls.
C5_Idempotence ==
  \A c1 \in DOMAIN calls, c2 \in DOMAIN calls :
    LET r1 == calls[c1]
        r2 == calls[c2]
    IN (/\ c1 < c2 /\ r1.elem = r2.elem
        /\ CallsOn(r1.elem) \cap ((c1 + 1)..(c2 - 1)) = {}
        /\ r1.origin = "updateElem" /\ r2.origin = "updateElem"
        /\ r1.beh = NoListener /\ r2.beh = NoListener
        /\ r1.dispatched /\ r1.cacheAt = Undefined /\ r1.auto /\ ~r1.pending
        /\ Truthy(r1.resolved)
        /\ ~r2.changed
        /\ Idle) =>
         /\ Cardinality({i \in EffOf("attr", c1) \cup EffOf("attr", c2) :
                           effects[i].name = config.sizesAttr}) = 1
         /\ Cardinality(EffOf("after", c1) \cup EffOf("after", c2)) = 1

\* C6 (cache/write coupling): in every step, the cached width of an element
\* changes if and only if that step writes the element's size attribute with
\* "<the new cached width>px".
C6_CacheWriteCoupling ==
  [][\A e \in Imgs :
       (cache'[e] # cache[e]) <=>
         (\E i \in (DOMAIN effects') \ (DOMAIN effects) :
            /\ effects'[i].kind = "attr" /\ effects'[i].elem = e
            /\ effects'[i].name = config'.sizesAttr
            /\ effects'[i].val = Px(cache'[e].v))]_vars

\* C8 (batch coalescing): at most one frame callback is requested, and one is
\* requested whenever commits are queued; the commits queued between two
\* flushes are all applied by the next flush, in the order they were queued.
C8_Batch ==
  /\ rafPending <= 1
  /\ (~running /\ queue # <<>>) => (rafPending = 1)
  /\ \A c \in DOMAIN calls :
       (calls[c].sched = "queued" /\ ~Queued(c)) =>
          /\ Committed(c)
          /\ \A i \in EffOf("cache", c) : effects[i].flush = calls[c].flushAt + 1
  /\ \A c \in DOMAIN calls :
       (calls[c].sched = "queued" /\ Idle) => ~Queued(c)
  /\ \A i \in DOMAIN effects, j \in DOMAIN effects :
       (/\ i < j
        /\ effects[i].kind = "cache" /\ effects[j].kind = "cache"
        /\ calls[effects[i].call].sched = "queued"
        /\ calls[effects[j].call].sched = "queued"
        /\ calls[effects[i].call].flushAt = calls[effects[j].call].flushAt) =>
          effects[i].call < effects[j].call

\* Two commits queued in one pass and applied by one flush.
C8_Witness ==
  \E c1 \in DOMAIN calls, c2 \in DOMAIN calls :
    /\ c1 < c2
    /\ calls[c1].sched = "queued" /\ calls[c2].sched = "queued"
    /\ calls[c1].flushAt = calls[c2].flushAt
    /\ Committed(c1) /\ Committed(c2)
    /\ Idle

\* C9 (prefix dual-write): a commit of width W, queued while no other commit
\* was pending on the element, writes "Wpx" to the configured attribute and,
\* when that name contains a hyphen and is not the bare name, also to the
\* part after its last hyphen; it writes no other attribute.
C9_DualWrite ==
  \A c \in DOMAIN calls :
    LET a == config.sizesAttr
        names == IF Includes(a, "-") /\ a # STR_sizes THEN {a, LastPart(a)} ELSE {a}
    IN (calls[c].sched = "queued" /\ ~calls[c].pending /\ Committed(c) /\ Idle) =>
         \A k \in EffOf("cache", c) :
           /\ \A n \in names :
                \E i \in EffOf("attr", c) :
                  effects[i].name = n /\ effects[i].val = Px(effects[k].width.v)
           /\ \A i \in EffOf("attr", c) : effects[i].name \in names

\* C7 (debounce coalescing): after init(), whenever every two consecutive
\* invocations of the debounced function are less than the configured
\* resizeDebounce apart, the pass has run at most once, no earlier than
\* resizeDebounce after the last invocation before it; and once no timer and
\* no idle callback is left, it has run exactly once.
C7_Coalescing ==
  LET debounceMs == config.resizeDebounce
  IN (/\ invLog # <<>>
      /\ \A i \in DOMAIN invLog : invLog[i].init
      /\ \A i \in 1..(Len(invLog) - 1) : invLog[i + 1].t - invLog[i].t < debounceMs) =>
        /\ Len(execLog) <= 1
        /\ \A k \in DOMAIN execLog : execLog[k].t >= invLog[execLog[k].n].t + debounceMs
        /\ (timers = <<>> /\ idleCbs = 0) => Len(execLog) = 1

\* The chain of ancestors of a node, nearest first.
RECURSIVE Ancestors(_)
Ancestors(n) ==
  IF parentNode[n] = NULL THEN <<>> ELSE <<parentNode[n]>> \o Ancestors(parentNode[n])

\* C10 (width resolution): for an unsized element under k ancestors whose
\* starting width (the given width, else its own) is below minSize, getWidth
\* returns the width of the nearest ancestor that is at least minSize wide,
\* within k steps; if no ancestor is, the width of the root-most ancestor; a
\* starting width of at least minSize is returned unchanged.
C10_Resolution ==
  (res.applied /\ cache[res.elem] = Undefined) =>
    LET start == IF Truthy(res.preset) THEN res.preset ELSE offsetWidth[res.elem]
        anc == Ancestors(res.elem)
        k == Len(anc)
        wide == {i \in 1..k : offsetWidth[anc[i]].t = "number"
                               /\ offsetWidth[anc[i]].v >= config.minSize}
    IN IF start.v >= config.minSize
       THEN res.out.width = start /\ res.out.steps = 0
       ELSE /\ res.out.steps <= k
            /\ IF wide # {}
               THEN \E i \in wide :
                      /\ \A j \in wide : i <= j
                      /\ res.out.width = offsetWidth[anc[i]]
                      /\ res.out.steps = i
               ELSE IF k = 0 THEN res.out.width = start
               ELSE res.out.width = offsetWidth[anc[k]]

\* The element 10 wide in a parent 5 wide in a grandparent 300 wide, minSize
\* 40: resolved to 300 in two steps.
C10_Witness ==
  /\ res.applied /\ cache[res.elem] = Undefined
  /\ config.minSize = 40
  /\ res.preset = Undefined
  /\ offsetWidth["img1"] = Num(10) /\ offsetWidth["div"] = Num(5)
  /\ offsetWidth["body"] = Num(300)
  /\ parentNode["img1"] = "div" /\ parentNode["div"] = "body"
  /\ res.out.width = Num(300) /\ res.out.steps = 2

\* C11 (initialize once): once init() has run, no step merges the
\* configuration again, registers another resize listener, rebinds the
\* collection or runs another initial pass; a further init() call changes
\* nothing of the library or of the elements.
C11_InitOnce ==
  [][initialized =>
       /\ config' = config
       /\ resizeListeners' = resizeListeners /\ resizeListeners = 1
       /\ elements' = elements
       /\ \A c \in (DOMAIN calls') \ (DOMAIN calls) : calls'[c].origin # "init"
       /\ (initAgain' /\ ~initAgain) =>
            UNCHANGED <<attrs, classList, cache, running, waiting, queue, rafPending,
                        calls, effects, timeout, timers, timestamp, invLog, execLog>>]_vars

\* init() was called again after the page had assigned another
\* window.autoSizesConfig, and a resize has since driven one invocation.
C11_Witness ==
  /\ initialized /\ initAgain
  /\ MergeConfig(userConfig) # config
  /\ resizeListeners = 1
  /\ Len(invLog) = 1

\* C12 (updateAll is debounced): after init(), a pass is run by the debounce
\* only resizeDebounce or more after the updateAll call that precedes it,
\* never inside the call; an updateAll call and a resize
\* notification less than resizeDebounce apart have caused at most one pass,
\* and exactly one once no timer and no idle callback is left; the pass of
\* init() has run inside init().
C12_UpdateAll ==
  LET debounceMs == config.resizeDebounce
  IN /\ initialized =>
          \A e \in Imgs : parentNode[e] # NULL =>
             \E c \in CallsOn(e) : calls[c].origin = "init" /\ calls[c].flushAt = 0
     /\ (\A i \in DOMAIN invLog : invLog[i].init) =>
          /\ \A k \in DOMAIN execLog :
               invLog[execLog[k].n].origin = "updateAll" =>
                 execLog[k].t >= invLog[execLog[k].n].t + debounceMs
          /\ (/\ Len(invLog) = 2
              /\ invLog[1].origin # invLog[2].origin
              /\ invLog[2].t - invLog[1].t < debounceMs) =>
                /\ Len(execLog) <= 1
                /\ (timers = <<>> /\ idleCbs = 0) => Len(execLog) = 1

\* C13 (configured delay): once init() has merged the configuration, the
\* delay the debounce uses is the merged resizeDebounce: the timer of an
\* invocation made after init() is armed for that delay, and no pass runs
\* earlier than that delay after the invocation before it.
C13_ConfiguredDelay ==
  initialized =>
    /\ wait = config.resizeDebounce
    /\ \A k \in DOMAIN execLog :
         invLog[execLog[k].n].init =>
           execLog[k].t - invLog[execLog[k].n].t >= MergeConfig(userConfig).resizeDebounce

\* C14 (auto-init switch): when window.autoSizesConfig.init is false as the
\* entry point is evaluated, the import neither calls init() nor leaves a
\* DOMContentLoaded listener that will: no resize listener, no pass; and
\* autoSizes.cfg is the user's configuration merged over the defaults.
C14_AutoInitSwitch ==
  [][(/\ ~imported /\ imported'
      /\ "init" \in DOMAIN userConfig
      /\ userConfig.init = FALSE) =>
        /\ initialized' = initialized
        /\ ~domReadyPending'
        /\ resizeListeners' = resizeListeners
        /\ calls' = calls
        /\ cfg = MergeConfig(userConfig)]_vars

\* C15 (afterSizesUpdate reports the commit): in the step that emits
\* afterSizesUpdate for a commit queued while no other commit was pending on
\* the element, the event comes after an attribute write of the same commit,
\* and as the step ends the configured size attribute equals detail.sizes,
\* the cached width equals detail.width, and detail.sizes is
\* "<detail.width>px".
C15_AfterReports ==
  [][\A i \in (DOMAIN effects') \ (DOMAIN effects) :
       LET ev == effects'[i]
       IN (ev.kind = "after" /\ ~calls'[ev.call].pending) =>
            /\ ev.val = Px(ev.width.v)
            /\ cache'[ev.elem] = ev.width
            /\ attrs'[ev.elem][config'.sizesAttr] = ev.val
            /\ \E j \in (DOMAIN effects') \ (DOMAIN effects) :
                 /\ j < i
                 /\ effects'[j].kind = "attr" /\ effects'[j].call = ev.call
                 /\ effects'[j].name = config'.sizesAttr]_vars

\* C16 (marker contract): an update of an element that was never sized and
\* whose size attribute does not read "auto" at that time leaves the element
\* untouched: it causes no attribute write, no cached width, no processed
\* class and no afterSizesUpdate, at the call or at a later flush.
C16_Marker ==
  \A c \in DOMAIN calls :
    (~calls[c].auto /\ calls[c].cacheAt = Undefined /\ ~calls[c].pending) =>
      /\ \A i \in DOMAIN effects : effects[i].call # c
      /\ CallsOn(calls[c].elem) \ (1..c) = {} =>
           /\ cache[calls[c].elem] = Undefined
           /\ config.processedElementClass \notin classList[calls[c].elem]

\* ToBoolean(x) is false: x is 0, NaN or undefined.
Falsy(x) == x.t # "number" \/ x.v = 0

\* C17 (zero width skip): a call whose width after the dispatch is falsy (0,
\* NaN or undefined, whether resolved so or set by a listener) schedules
\* nothing: no commit of it is queued or run, so it causes no attribute
\* write, no cache change, no class addition and no afterSizesUpdate.
C17_ZeroSkip ==
  \A c \in DOMAIN calls :
    (calls[c].dispatched /\ ~calls[c].vetoed /\ Falsy(calls[c].width)) =>
      /\ calls[c].sched = "none"
      /\ ~Queued(c)
      /\ \A i \in DOMAIN effects : effects[i].call # c

\* A listener set the width to 0 in one call and to NaN in another, where the
\* resolved width differed from the cache; a flush has run since.
C17_Witness ==
  /\ \E c \in DOMAIN calls :
       /\ calls[c].dispatched /\ calls[c].width = Num(0)
       /\ Truthy(calls[c].resolved) /\ calls[c].resolved # calls[c].cacheAt
       /\ flushNo > calls[c].flushAt
  /\ \E c \in DOMAIN calls :
       /\ calls[c].dispatched /\ calls[c].width = NaN
       /\ Truthy(calls[c].resolved) /\ calls[c].resolved # calls[c].cacheAt
  /\ Idle

\* C18 (detached element): a call on an element without a parent dispatches
\* no beforeSizesUpdate and schedules nothing, and the step of the call
\* changes neither the element (attributes, classes, cache) nor the batcher
\* (queue, flags, requested frame callbacks).
C18_Detached ==
  [][\A c \in (DOMAIN calls') \ (DOMAIN calls) :
       parentNode[calls'[c].elem] = NULL =>
         /\ ~calls'[c].dispatched
         /\ calls'[c].sched = "none"
         /\ UNCHANGED <<attrs, classList, cache, running, waiting, queue, rafPending,
                        effects>>]_vars

\* updateElem on the detached img2 while a commit of img1 is queued.
C18_Witness ==
  \E c \in DOMAIN calls :
    /\ parentNode[calls[c].elem] = NULL
    /\ calls[c].origin = "updateElem"
    /\ ~calls[c].dispatched
    /\ queue # <<>> /\ rafPending = 1

\* C19 (debounce with idle scheduling): where requestIdleCallback exists (and
\* the delay in use is the configured one), every execution of the pass comes
\* resizeDebounce or more after the latest invocation before it, and no
\* invocation is lost: once no timer and no idle callback is left, an
\* execution has followed the last invocation.
C19_IdleDebounce ==
  (hasIdle /\ wait = config.resizeDebounce) =>
    /\ \A k \in DOMAIN execLog :
         execLog[k].t >= invLog[execLog[k].n].t + config.resizeDebounce
    /\ (invLog # <<>> /\ timers = <<>> /\ idleCbs = 0) =>
         /\ execLog # <<>>
         /\ execLog[Len(execLog)].n = Len(invLog)

\* C20 (no write is dropped): with a fair frame callback, every commit passed
\* to the batcher, queued or handed over during a flush, is eventually run,
\* and never more than once; a commit handed over during a flush has run when
\* the call returns; and when no frame callback is requested or running the
\* queue is empty.
C20_NoDrop ==
  /\ [](\A c \in DOMAIN calls :
          /\ Cardinality(EffOf("cache", c)) <= 1
          /\ calls[c].sched = "none" => ~Committed(c) /\ ~Queued(c)
          /\ calls[c].sched = "inline" => Committed(c) /\ ~Queued(c)
          /\ calls[c].sched = "queued" => (Committed(c) <=> ~Queued(c)))
  /\ []((~running /\ rafPending = 0) => queue = <<>>)
  /\ \A c \in 1..MaxCalls :
       (c \in DOMAIN calls /\ calls[c].sched # "none") ~> Committed(c)

\* Two commits queued in one pass and one handed over during the flush, all
\* run, and the flush has ended.
C20_Witness ==
  /\ \E c1 \in DOMAIN calls, c2 \in DOMAIN calls :
       /\ c1 # c2
       /\ calls[c1].sched = "queued" /\ calls[c2].sched = "queued"
       /\ calls[c1].flushAt = calls[c2].flushAt
       /\ Committed(c1) /\ Committed(c2)
  /\ \E c \in DOMAIN calls : calls[c].sched = "inline" /\ Committed(c)
  /\ Idle /\ rafPending = 0

\* C21 (re-entrant schedule): a commit handed to the batcher while a flush is
\* executing (an afterSizesUpdate listener called updateElem) runs inside
\* that call: as the call returns its cache write, attribute write and
\* afterSizesUpdate are done, in the current flush, which is still executing;
\* the queue holds what it held, and no frame callback was requested.
C21_Reentrant ==
  [][\A c \in (DOMAIN calls') \ (DOMAIN calls) :
       (running /\ calls'[c].sched # "none") =>
         /\ \E i \in (DOMAIN effects') \ (DOMAIN effects) :
              /\ effects'[i].kind = "cache" /\ effects'[i].call = c
              /\ effects'[i].flush = flushNo
         /\ \E i \in (DOMAIN effects') \ (DOMAIN effects) :
              effects'[i].kind = "after" /\ effects'[i].call = c
         /\ cache'[calls'[c].elem] = calls'[c].width
         /\ running'
         /\ UNCHANGED <<queue, waiting, rafPending, flushNo>>]_vars

\* A listener's call was committed inline while another commit was still in
\* the queue of the executing flush.
C21_Witness ==
  /\ running /\ queue # <<>>
  /\ rafPending = 0
  /\ \E c \in DOMAIN calls :
       /\ calls[c].origin = "listener" /\ calls[c].sched = "inline"
       /\ Committed(c)
       /\ \A i \in DOMAIN queue : queue[i].call < c

\* The position in effects of the commit of call c (0 if it has not run).
CommitAt(c) ==
  IF Committed(c) THEN CHOOSE i \in EffOf("cache", c) : TRUE ELSE 0

\* C22 (global FIFO), as stated: the commits run in the order in which they
\* were scheduled, those scheduled during a drain included; a commit
\* scheduled during the drain is queued behind the pending ones (it is not
\* run before any of them) and is drained by the same flush.
C22_GlobalFifo ==
  \A c1 \in DOMAIN calls, c2 \in DOMAIN calls :
    (/\ c1 < c2
     /\ calls[c1].sched # "none" /\ calls[c2].sched # "none"
     /\ Committed(c2)) =>
       /\ Committed(c1)
       /\ CommitAt(c1) < CommitAt(c2)

\* C22 (FIFO of the queue): the commits scheduled while no flush is
\* executing run in the order in which they were scheduled, each in the
\* flush that follows its scheduling; a commit scheduled during a drain is
\* never queued: it has run in the flush that was executing, before anything
\* a later call causes (whatever was still pending at its call runs after it).
C22_QueueFifo ==
  /\ \A c1 \in DOMAIN calls, c2 \in DOMAIN calls :
       (/\ c1 < c2
        /\ calls[c1].sched = "queued" /\ calls[c2].sched = "queued"
        /\ Committed(c2)) =>
          /\ Committed(c1)
          /\ CommitAt(c1) < CommitAt(c2)
  /\ \A c \in DOMAIN calls :
       (calls[c].sched = "queued" /\ Committed(c)) =>
          effects[CommitAt(c)].flush = calls[c].flushAt + 1
  /\ \A c \in DOMAIN calls :
       calls[c].sched = "inline" =>
          /\ ~Queued(c)
          /\ Committed(c)
          /\ effects[CommitAt(c)].flush = calls[c].flushAt
          /\ \A i \in DOMAIN effects :
               effects[i].call > c => i > CommitAt(c)

\* Two commits were queued by one pass; a listener's call during the flush
\* was committed between them, ahead of the second, which was scheduled
\* before it; the flush has ended.
C22_Witness ==
  \E c1 \in DOMAIN calls, c2 \in DOMAIN calls, c3 \in DOMAIN calls :
    /\ c1 < c2 /\ c2 < c3
    /\ calls[c1].sched = "queued" /\ calls[c2].sched = "queued"
    /\ calls[c3].sched = "inline"
    /\ Committed(c1) /\ Committed(c2) /\ Committed(c3)
    /\ CommitAt(c1) < CommitAt(c3) /\ CommitAt(c3) < CommitAt(c2)
    /\ Idle

\* C23 (no traversal once sized): for an element with a non-zero cached
\* width, getWidth returns the given width if it is non-zero, else the
\* element's own width, and reads no container width (no loop iteration),
\* also when that width is below minSize.
C23_SizedNoTraversal ==
  (res.applied /\ Truthy(cache[res.elem])) =>
    /\ res.out.steps = 0
    /\ res.out.width = IF Truthy(res.preset) THEN res.preset ELSE offsetWidth[res.elem]

\* The sized element is 10 wide (below minSize 40) in a parent 5 wide in a
\* grandparent 300 wide, no width given: resolved to 10; and a given width
\* of 10 is returned for an element 0 wide.
C23_Witness ==
  /\ res.applied /\ cache[res.elem] = Num(450)
  /\ config.minSize = 40
  /\ parentNode["img1"] = "div" /\ parentNode["div"] = "body"
  /\ offsetWidth["div"] = Num(5) /\ offsetWidth["body"] = Num(300)
  /\ \/ res.preset = Undefined /\ offsetWidth["img1"] = Num(10)
        /\ res.out.width = Num(10)
     \/ res.preset = Num(10) /\ offsetWidth["img1"] = Num(0)
        /\ res.out.width = Num(10)

\* A step that runs an update pass with the collection bound: init()'s
\* initial pass, or an execution of the debounced pass.
PassStep ==
  /\ elements'
  /\ (~initialized /\ initialized') \/ Len(execLog') > Len(execLog)

\* C24 (failure isolation within a pass): a pass calls getSizeElement on
\* every element of the collection, whatever happens to the others (a veto,
\* a zero width, an unchanged width); every element whose width after the
\* dispatch is non-zero, differs from its cached width and was not vetoed
\* has its commit queued by the pass, with a frame callback requested, and
\* that commit runs in the next flush.
C24_Isolation ==
  /\ [][PassStep =>
          LET new == (DOMAIN calls') \ (DOMAIN calls)
          IN /\ \A e \in Imgs :
                  parentNode[e] # NULL =>
                    \E c \in new : calls'[c].elem = e /\ calls'[c].dispatched
             /\ \A c \in new :
                  (/\ ~calls'[c].vetoed
                   /\ Truthy(calls'[c].width)
                   /\ calls'[c].width # calls'[c].cacheAt) =>
                     /\ calls'[c].sched = "queued"
                     /\ \E i \in DOMAIN queue' : queue'[i].call = c
                     /\ rafPending' = 1]_vars
  /\ [](\A c \in DOMAIN calls :
          (calls[c].sched = "queued" /\ flushNo > calls[c].flushAt /\ Idle) =>
             \E i \in EffOf("cache", c) : effects[i].flush = calls[c].flushAt + 1)

\* A debounced pass over img1 and img2 in which img1, sized before, resolved
\* to its cached width (nothing scheduled) and img2, inserted after init(),
\* was committed by the following flush.
C24_Witness ==
  \E c1 \in DOMAIN calls, c2 \in DOMAIN calls :
    /\ c2 = c1 + 1
    /\ calls[c1].origin = "debounced" /\ calls[c2].origin = "debounced"
    /\ calls[c1].flushAt = calls[c2].flushAt
    /\ calls[c1].elem = "img1" /\ calls[c2].elem = "img2"
    /\ calls[c1].sched = "none"
    /\ ~calls[c1].vetoed /\ Truthy(calls[c1].width)
    /\ calls[c1].width = calls[c1].cacheAt
    /\ calls[c2].sched = "queued" /\ Committed(c2)
    /\ cache["img2"] = calls[c2].width
    /\ Idle

\* C25 (sized is absorbing): no step clears or zeroes a cached width that is
\* set (it stays a non-zero number), and no step takes the processed class
\* off an element that has it; a cached width is never anything but unset or
\* a non-zero number.
C25_SizedAbsorbing ==
  /\ [](\A e \in Imgs : cache[e] = Undefined \/ ~Falsy(cache[e]))
  /\ [][\A e \in Imgs :
          /\ cache[e] # Undefined => ~Falsy(cache'[e])
          /\ \A cl \in classList[e] : cl \in classList'[e]]_vars

\* img1 was sized by init()'s pass; after a layout change a pass on it was
\* vetoed and another had its width set to 0; init() was called again; img1
\* still has the width and the class of its commit.
C25_Witness ==
  \E c0 \in DOMAIN calls, c1 \in DOMAIN calls, c2 \in DOMAIN calls :
    /\ c0 < c1 /\ c0 < c2
    /\ calls[c0].elem = "img1" /\ calls[c1].elem = "img1" /\ calls[c2].elem = "img1"
    /\ calls[c0].origin = "init" /\ Committed(c0)
    /\ calls[c1].vetoed /\ Truthy(calls[c1].resolved)
    /\ calls[c1].cacheAt = calls[c0].width
    /\ calls[c1].resolved # calls[c1].cacheAt
    /\ ~calls[c2].vetoed /\ calls[c2].dispatched /\ calls[c2].width = Num(0)
    /\ calls[c2].cacheAt = calls[c0].width
    /\ initAgain
    /\ cache["img1"] = calls[c0].width
    /\ config.processedElementClass \in classList["img1"]
    /\ Idle

\* The tracked images that are in the document and carry the target class,
\* in document order.
InDocument ==
  SelectSeq(DocOrder,
            LAMBDA e : parentNode[e] # NULL /\ config'.targetElementClass \in classList[e])

\* C26 (live collection): every pass run once init() has bound the
\* collection (the initial pass or a debounced pass, which a resize
\* notification or an updateAll call has caused) calls getSizeElement exactly on the tracked elements that are in the
\* document as the pass runs, once each, in document order, with no preset
\* width and dataAttr false: an element inserted after init() is processed
\* by the next pass, a removed element is not.
C26_LiveCollection ==
  [][PassStep =>
       /\ Len(calls') = Len(calls) + Len(InDocument)
       /\ \A i \in 1..Len(InDocument) :
            LET r == calls'[Len(calls) + i]
            IN /\ r.elem = InDocument[i]
               /\ r.dispatched
               /\ r.preset = Undefined
               /\ r.dataAttr = FALSE
               /\ r.origin \in {"init", "debounced"}]_vars

\* img2 was not in the document at init(), whose pass processed img1 alone;
\* the page inserted img2, and the pass of an updateAll call processed img1
\* and img2 and sized img2.
C26_Witness ==
  /\ Len(calls) = 3
  /\ calls[1].origin = "init" /\ calls[1].elem = "img1"
  /\ calls[2].origin = "debounced" /\ calls[2].elem = "img1"
  /\ calls[3].origin = "debounced" /\ calls[3].elem = "img2"
  /\ invLog[Len(invLog)].origin = "updateAll"
  /\ Committed(3)
  /\ Idle

\* C27 (batcher scheduling invariant): at most one frame callback is
\* outstanding; while no flush is executing, one is outstanding exactly when
\* the queue is not empty, and `waiting` says so; while a flush is executing
\* none is outstanding.
C27_OneCallback ==
  /\ rafPending \in {0, 1}
  /\ ~running => /\ (queue # <<>>) <=> (rafPending = 1)
                 /\ waiting <=> (rafPending = 1)
  /\ running => rafPending = 0 /\ ~waiting

\* After a first flush, two commits are queued by two calls and one frame
\* callback is outstanding.
C27_Witness ==
  /\ flushNo >= 1 /\ ~running
  /\ Len(queue) = 2
  /\ queue[1].call # queue[2].call
  /\ calls[queue[1].call].flushAt >= 1
  /\ rafPending = 1 /\ waiting

\* Timers and idle callbacks of the debounce that are pending.
PendingTriggers == Len(timers) + idleCbs

\* C28 (debounce timer invariant): at most one debounce timer or idle
\* callback is pending, and `timeout` is set exactly while one is; an
\* invocation made while one is pending records its timestamp and arms
\* nothing; an invocation made while none is pending (at first, or after the
\* wrapped function has executed) arms one timer, due after the delay.
C28_OneTimer ==
  /\ [](/\ PendingTriggers <= 1
        /\ (timeout = "handle") <=> (PendingTriggers = 1))
  /\ [][Len(invLog') > Len(invLog) =>
          /\ timestamp' = now
          /\ idleCbs' = idleCbs
          /\ execLog' = execLog
          /\ IF PendingTriggers > 0
             THEN timers' = timers /\ timeout' = timeout
             ELSE timers' = <<now + wait>> /\ timeout' = "handle"]_vars

\* With requestIdleCallback: a second invocation arrived while the timer or
\* the idle callback of the first was pending, the pass has executed once
\* after both, and a third invocation after the execution has armed a fresh
\* timer.
C28_Witness ==
  /\ hasIdle
  /\ Len(invLog) = 3 /\ Len(execLog) = 1
  /\ execLog[1].n = 2
  /\ invLog[2].t > invLog[1].t
  /\ invLog[3].t >= execLog[1].t
  /\ timers = <<invLog[3].t + wait>>
  /\ idleCbs = 0 /\ timeout = "handle"

====
